---- MODULE Spec2Model ----
(***************************************************************************)
(* csae_pyutils: load_json, gsheet_to_df and upload_files_to_owncloud.     *)
(* One call of one of the three functions per behaviour; the environment   *)
(* (file system, HTTP endpoint, ownCloud server) answers each external     *)
(* call nondeterministically.  Text is a sequence of one-character         *)
(* strings, file content a sequence of byte values.                        *)
(***************************************************************************)
EXTENDS Integers, Sequences, FiniteSets, TLC

\* ---------------------------------------------------------------- bounds
MaxLen == 4      \* bytes in the file given to load_json
MaxBody == 5     \* characters in the body of the HTTP response
MaxFiles == 3    \* entries of file_list

\* ------------------------------------------------------ sequences of a set
RECURSIVE SeqsUpTo(_, _)
SeqsUpTo(S, n) ==
    IF n = 0 THEN {<<>>}
    ELSE LET shorter == SeqsUpTo(S, n - 1)
         IN  shorter \cup {Append(s, c) : s \in {t \in shorter : Len(t) = n - 1}, c \in S}

\* ================================================================ load_json
\* byte values that occur in the modelled files: '"' '1' ',' '[' ']' and the
\* two bytes 0xC3 0xBF (UTF-8 for U+00FF)
QUOTE == 34
DIGIT1 == 49
COMMA == 44
LBRACKET == 91
RBRACKET == 93
Bytes == {QUOTE, DIGIT1, COMMA, LBRACKET, RBRACKET, 195, 191}
Encodings == {"utf-8", "latin-1"}

\* codecs: bytes -> code points, as open(..., encoding=encoding).read() does
RECURSIVE utf_8_decode(_, _, _)
utf_8_decode(b, i, acc) ==
    IF i > Len(b) THEN [ok |-> TRUE, text |-> acc]
    ELSE IF b[i] < 128 THEN utf_8_decode(b, i + 1, Append(acc, b[i]))
    ELSE IF /\ b[i] >= 194 /\ b[i] <= 223
            /\ i + 1 <= Len(b) /\ b[i + 1] >= 128 /\ b[i + 1] <= 191
         THEN utf_8_decode(b, i + 2, Append(acc, (b[i] % 32) * 64 + (b[i + 1] % 64)))
    ELSE [ok |-> FALSE, text |-> <<>>]

latin_1_decode(b) == [ok |-> TRUE, text |-> b]

decode(b, enc) ==
    IF enc = "utf-8" THEN utf_8_decode(b, 1, <<>>) ELSE latin_1_decode(b)

\* json.loads on a str of code points (strings without escapes, arrays,
\* integers made of the digit 1)
JFail == [ok |-> FALSE, end |-> 0, val |-> <<>>]
JOk(v, e) == [ok |-> TRUE, end |-> e, val |-> v]

RECURSIVE py_scanstring(_, _, _)
py_scanstring(s, begin, i) ==
    IF i > Len(s) THEN JFail
    ELSE IF s[i] = QUOTE THEN JOk(<<"str", SubSeq(s, begin, i - 1)>>, i + 1)
    ELSE py_scanstring(s, begin, i + 1)

RECURSIVE match_number(_, _, _)
match_number(s, i, n) ==
    IF i <= Len(s) /\ s[i] = DIGIT1 THEN match_number(s, i + 1, 10 * n + 1)
    ELSE JOk(<<"int", n>>, i)

RECURSIVE scan_once(_, _), JSONArrayItems(_, _, _)
JSONArrayItems(s, i, acc) ==
    LET v == scan_once(s, i)
    IN  IF ~v.ok THEN JFail
        ELSE IF v.end > Len(s) THEN JFail
        ELSE IF s[v.end] = RBRACKET THEN JOk(<<"list", Append(acc, v.val)>>, v.end + 1)
        ELSE IF s[v.end] = COMMA THEN JSONArrayItems(s, v.end + 1, Append(acc, v.val))
        ELSE JFail

JSONArray(s, i) ==
    IF i <= Len(s) /\ s[i] = RBRACKET THEN JOk(<<"list", <<>>>>, i + 1)
    ELSE JSONArrayItems(s, i, <<>>)

scan_once(s, i) ==
    IF i > Len(s) THEN JFail
    ELSE IF s[i] = QUOTE THEN py_scanstring(s, i + 1, i + 1)
    ELSE IF s[i] = LBRACKET THEN JSONArray(s, i + 1)
    ELSE IF s[i] = DIGIT1 THEN match_number(s, i, 0)
    ELSE JFail

\* variant: the trailing "Extra data" check left out
json_loads_no_end_check(s) ==
    LET v == scan_once(s, 1)
    IN  IF v.ok THEN v ELSE JFail

json_loads(s) ==
    LET v == scan_once(s, 1)
    IN  IF v.ok /\ v.end = Len(s) + 1 THEN v ELSE JFail


\* ============================================================= gsheet_to_df
Chars == {"a", ",", "\n"}
Statuses == {200, 404, 500}
SheetIds == {<<"s">>, <<"t">>}
GDRIVE_BASE_URL == <<"https://docs.google.com/spreadsheet/ccc?key=">>

\* str.split: the pieces of s between occurrences of sep
RECURSIVE Split(_, _, _, _, _)
Split(s, sep, i, cur, acc) ==
    IF i > Len(s) THEN Append(acc, cur)
    ELSE IF s[i] = sep THEN Split(s, sep, i + 1, <<>>, Append(acc, cur))
    ELSE Split(s, sep, i + 1, Append(cur, s[i]), acc)

Max(a, b) == IF a >= b THEN a ELSE b

\* a row filled with empty cells (NaN) up to w fields
Pad(row, w) == [k \in 1..Max(w, Len(row)) |-> IF k <= Len(row) THEN row[k] ELSE <<>>]

\* variant: a header without data rows treated as empty data
read_csv_header_only_empty(data) ==
    LET lines == SelectSeq(Split(data, "\n", 1, <<>>, <<>>), LAMBDA l : l # <<>>)
    IN  IF Len(lines) <= 1 THEN [err |-> "EmptyDataError", columns |-> <<>>, rows |-> <<>>]
        ELSE LET header == Split(lines[1], ",", 1, <<>>, <<>>)
                 raw == [k \in 1..(Len(lines) - 1) |-> Split(lines[k + 1], ",", 1, <<>>, <<>>)]
                 w == Max(Len(header), Len(raw[1]))
             IN  IF \E k \in 2..Len(raw) : Len(raw[k]) > w
                 THEN [err |-> "ParserError", columns |-> <<>>, rows |-> <<>>]
                 ELSE [err |-> "none", columns |-> header,
                       rows |-> [k \in 1..Len(raw) |-> Pad(raw[k], w)]]

\* pandas.read_csv with its defaults: blank lines are skipped, the first
\* remaining line is the header, no line at all is an EmptyDataError; the
\* width is set by the header and the first data line, a later line with
\* more fields is a ParserError, a shorter line is filled with NaN.
read_csv(data) ==
    LET lines == SelectSeq(Split(data, "\n", 1, <<>>, <<>>), LAMBDA l : l # <<>>)
    IN  IF lines = <<>> THEN [err |-> "EmptyDataError", columns |-> <<>>, rows |-> <<>>]
        ELSE LET header == Split(lines[1], ",", 1, <<>>, <<>>)
                 raw == [k \in 1..(Len(lines) - 1) |-> Split(lines[k + 1], ",", 1, <<>>, <<>>)]
                 w == IF raw = <<>> THEN Len(header) ELSE Max(Len(header), Len(raw[1]))
             IN  IF \E k \in 2..Len(raw) : Len(raw[k]) > w
                 THEN [err |-> "ParserError", columns |-> <<>>, rows |-> <<>>]
                 ELSE [err |-> "none", columns |-> header,
                       rows |-> [k \in 1..Len(raw) |-> Pad(raw[k], w)]]


\* =============================================== upload_files_to_owncloud
Paths == {<<"a">>, <<"d", "/", "a">>, <<"d", "/", "e", "/", "b">>, <<"d", "/">>}
Folders == {<<"p">>, <<"q">>}
Users == {"user"}
Passwords == {"pw"}
LoginErrors == {"HTTPResponseError", "ConnectionError"}
MkdirErrors == {"exists", "denied", "ConnectionError", "KeyboardInterrupt"}
PutErrors == {"HTTPResponseError", "OSError"}
PutOutcomes == {"r1", "r2"}     \* the objects oc.put_file can return

\* variant: the first "/" instead of the last
find_first(x, c, i) ==
    IF \E k \in 1..i : x[k] = c THEN CHOOSE k \in 1..i : x[k] = c /\ \A m \in 1..(k - 1) : x[m] # c
    ELSE 0

\* str.rfind: the position of the last c in x[1..i], 0 if there is none
RECURSIVE rfind(_, _, _)
rfind(x, c, i) ==
    IF i = 0 THEN 0 ELSE IF x[i] = c THEN i ELSE rfind(x, c, i - 1)

\* os.path.split(x): tail is what follows the last "/" of x
os_path_split(x) ==
    LET i == rfind(x, "/", Len(x))
    IN  [head |-> SubSeq(x, 1, i), tail |-> SubSeq(x, i + 1, Len(x))]

\* variant: the whole local path instead of its tail
owncloud_name_full_path(coll, x) == coll \o <<"/">> \o x

\* f"{collection}/{tail}"
owncloud_name_of(coll, x) == coll \o <<"/">> \o os_path_split(x).tail

\* variant: only "already exists" is swallowed
MkdirExcept_only_exists(err) == err = "exists"

\* the bare "except: pass" around oc.mkdir: which errors it swallows
MkdirExcept(err) == TRUE

\* variant: the first outcome is kept
AssignResult_keep_first(old, o) == IF old = <<>> THEN <<o>> ELSE old

\* result = oc.put_file(...): the binding of result after a put returned o
AssignResult(old, o) == <<o>>

\* the outcomes oc.put_file can have for local file x: a path that ends in
\* "/" names no regular file, so reading it fails
PutResults(x) ==
    IF os_path_split(x).tail = <<>> THEN {"OSError"}
    ELSE PutErrors \cup PutOutcomes

\* ------------------------------------------------------------------ state
VARIABLES
    pc,            \* position of the running call
    fn,            \* the function that was called
    exc,           \* the exception that left the call, "none" if none
    ret,           \* <<v>> once the call returned v, <<>> before
    log,           \* external calls and prints, in program order
    file,          \* load_json: the file at file_path (exists, bytes)
    encoding,      \* load_json: encoding argument
    url,           \* gsheet_to_df: url
    r,             \* gsheet_to_df: the response, <<>> before the GET returned
    file_list,     \* upload: file_list argument
    collection,    \* upload: collection (= folder argument)
    cred,          \* upload: user and pw
    idx,           \* upload: number of entries the for loop has taken
    owncloud_name, \* upload: owncloud_name of the current entry
    result,        \* upload: <<o>> once result is bound to o, <<>> while unbound
    remote         \* the objects on the ownCloud server: name and content

vars == <<pc, fn, exc, ret, log, file, encoding, url, r, file_list, collection,
          cred, idx, owncloud_name, result, remote>>
ljVars == <<file, encoding>>
gsVars == <<url, r>>
upVars == <<file_list, collection, cred, idx, owncloud_name, result, remote>>

Event(op, name, src, res) == [op |-> op, name |-> name, src |-> src, res |-> res]

Init ==
    /\ pc = "idle" /\ fn = "none" /\ exc = "none" /\ ret = <<>> /\ log = <<>>
    /\ file = [exists |-> FALSE, bytes |-> <<>>] /\ encoding = "utf-8"
    /\ url = <<>> /\ r = <<>>
    /\ file_list = <<>> /\ collection = <<>> /\ cred = <<>> /\ idx = 0
    /\ owncloud_name = <<>> /\ result = <<>> /\ remote = {}

Raise(e) == pc' = "done" /\ exc' = e /\ ret' = ret
Return(v) == pc' = "done" /\ ret' = <<v>> /\ exc' = exc

\* ----------------------------------------------------------------- load_json
call_load_json ==
    /\ pc = "idle"
    /\ \E ex \in BOOLEAN, b \in SeqsUpTo(Bytes, MaxLen), enc \in Encodings :
          /\ ex \/ b = <<>>
          /\ file' = [exists |-> ex, bytes |-> b]
          /\ encoding' = enc
    /\ pc' = "lj_open" /\ fn' = "load_json"
    /\ UNCHANGED <<exc, ret, log>> /\ UNCHANGED gsVars /\ UNCHANGED upVars

\* with open(file_path, "r", encoding=encoding) as fp
lj_open ==
    /\ pc = "lj_open"
    /\ IF file.exists THEN pc' = "lj_load" /\ UNCHANGED <<exc, ret>>
       ELSE Raise("FileNotFoundError")
    /\ UNCHANGED <<fn, log>> /\ UNCHANGED ljVars /\ UNCHANGED gsVars /\ UNCHANGED upVars

\* data = json.load(fp); return data
lj_load ==
    /\ pc = "lj_load"
    /\ LET d == decode(file.bytes, encoding)
       IN  IF ~d.ok THEN Raise("UnicodeDecodeError")
           ELSE LET j == json_loads(d.text)
                IN  IF ~j.ok THEN Raise("JSONDecodeError") ELSE Return(j.val)
    /\ UNCHANGED <<fn, log>> /\ UNCHANGED ljVars /\ UNCHANGED gsVars /\ UNCHANGED upVars

\* -------------------------------------------------------------- gsheet_to_df
call_gsheet_to_df ==
    /\ pc = "idle"
    /\ \E sheet_id \in SheetIds : url' = GDRIVE_BASE_URL \o sheet_id \o <<"&output=csv">>
    /\ pc' = "gs_get" /\ fn' = "gsheet_to_df"
    /\ UNCHANGED <<exc, ret, log, r>> /\ UNCHANGED ljVars /\ UNCHANGED upVars

\* r = requests.get(url)
gs_get ==
    /\ pc = "gs_get"
    /\ \/ /\ log' = Append(log, Event("get", url, <<>>, "RequestException"))
          /\ Raise("RequestException")
          /\ r' = r
       \/ \E st \in Statuses, body \in SeqsUpTo(Chars, MaxBody) :
             /\ log' = Append(log, Event("get", url, <<>>, "ok"))
             /\ r' = <<[status_code |-> st, content |-> body]>>
             /\ pc' = "gs_print" /\ UNCHANGED <<exc, ret>>
    /\ UNCHANGED <<fn, url>> /\ UNCHANGED ljVars /\ UNCHANGED upVars

\* variant: r.raise_for_status() after the print
gs_print_raise_for_status ==
    /\ pc = "gs_print"
    /\ log' = Append(log, Event("print", <<r[1].status_code>>, <<>>, "ok"))
    /\ IF r[1].status_code >= 400 THEN Raise("HTTPError")
       ELSE pc' = "gs_read_csv" /\ UNCHANGED <<exc, ret>>
    /\ UNCHANGED fn /\ UNCHANGED gsVars /\ UNCHANGED ljVars /\ UNCHANGED upVars

\* print(r.status_code)
gs_print ==
    /\ pc = "gs_print"
    /\ log' = Append(log, Event("print", <<r[1].status_code>>, <<>>, "ok"))
    /\ pc' = "gs_read_csv"
    /\ UNCHANGED <<fn, exc, ret>> /\ UNCHANGED gsVars /\ UNCHANGED ljVars /\ UNCHANGED upVars

\* data = r.content; df = pd.read_csv(BytesIO(data)); return df
gs_read_csv ==
    /\ pc = "gs_read_csv"
    /\ LET df == read_csv(r[1].content)
       IN  IF df.err # "none" THEN Raise(df.err)
           ELSE Return([columns |-> df.columns, rows |-> df.rows])
    /\ UNCHANGED <<fn, log>> /\ UNCHANGED gsVars /\ UNCHANGED ljVars /\ UNCHANGED upVars

\* -------------------------------------------------- upload_files_to_owncloud
\* collection = folder; oc = owncloud.Client(...)
call_upload_files_to_owncloud ==
    /\ pc = "idle"
    /\ \E fl \in SeqsUpTo(Paths, MaxFiles), user \in Users, pw \in Passwords, folder \in Folders :
          /\ file_list' = fl
          /\ cred' = <<user, pw>>
          /\ collection' = folder
    /\ pc' = "up_login" /\ fn' = "upload_files_to_owncloud"
    /\ UNCHANGED <<exc, ret, log, idx, owncloud_name, result, remote>>
    /\ UNCHANGED ljVars /\ UNCHANGED gsVars

\* variant: a failed login is ignored
up_login_ignore_failure ==
    /\ pc = "up_login"
    /\ \E res \in {"ok"} \cup LoginErrors :
          log' = Append(log, Event("login", <<>>, cred, res))
    /\ pc' = "up_mkdir"
    /\ UNCHANGED <<fn, exc, ret>> /\ UNCHANGED upVars /\ UNCHANGED ljVars /\ UNCHANGED gsVars

\* oc.login(user, pw)
up_login ==
    /\ pc = "up_login"
    /\ \E res \in {"ok"} \cup LoginErrors :
          /\ log' = Append(log, Event("login", <<>>, cred, res))
          /\ IF res = "ok" THEN pc' = "up_mkdir" /\ UNCHANGED <<exc, ret>>
             ELSE Raise(res)
    /\ UNCHANGED fn /\ UNCHANGED upVars /\ UNCHANGED ljVars /\ UNCHANGED gsVars

\* try: oc.mkdir(collection) except: pass
up_mkdir ==
    /\ pc = "up_mkdir"
    /\ \E res \in {"ok"} \cup MkdirErrors :
          /\ log' = Append(log, Event("mkdir", collection, <<>>, res))
          /\ IF res = "ok" \/ MkdirExcept(res) THEN pc' = "up_for" /\ UNCHANGED <<exc, ret>>
             ELSE Raise(res)
    /\ UNCHANGED fn /\ UNCHANGED upVars /\ UNCHANGED ljVars /\ UNCHANGED gsVars

\* for x in files: _, tail = os.path.split(x); owncloud_name = ...; print(...)
up_for ==
    /\ pc = "up_for"
    /\ IF idx < Len(file_list)
       THEN LET x == file_list[idx + 1]
            IN  /\ idx' = idx + 1
                /\ owncloud_name' = owncloud_name_of(collection, x)
                /\ log' = Append(log, Event("print", owncloud_name_of(collection, x),
                                            os_path_split(x).tail, "ok"))
                /\ pc' = "up_put"
       ELSE /\ pc' = "up_return"
            /\ UNCHANGED <<idx, owncloud_name, log>>
    /\ UNCHANGED <<fn, exc, ret, file_list, collection, cred, result, remote>>
    /\ UNCHANGED ljVars /\ UNCHANGED gsVars

\* variant: a failed put is skipped and the loop goes on
up_put_continue ==
    /\ pc = "up_put"
    /\ LET x == file_list[idx]
       IN  \E res \in PutResults(x) :
              /\ log' = Append(log, Event("put", owncloud_name, x, res))
              /\ IF res \in PutOutcomes
                 THEN /\ remote' = {o \in remote : o.name # owncloud_name}
                                      \cup {[name |-> owncloud_name, content |-> x]}
                      /\ result' = AssignResult(result, res)
                 ELSE UNCHANGED <<remote, result>>
    /\ pc' = "up_for"
    /\ UNCHANGED <<fn, exc, ret, file_list, collection, cred, idx, owncloud_name>>
    /\ UNCHANGED ljVars /\ UNCHANGED gsVars

\* result = oc.put_file(owncloud_name, x)
up_put ==
    /\ pc = "up_put"
    /\ LET x == file_list[idx]
       IN  \E res \in PutResults(x) :
              /\ log' = Append(log, Event("put", owncloud_name, x, res))
              /\ IF res \in PutOutcomes
                 THEN /\ remote' = {o \in remote : o.name # owncloud_name}
                                      \cup {[name |-> owncloud_name, content |-> x]}
                      /\ result' = AssignResult(result, res)
                      /\ pc' = "up_for" /\ UNCHANGED <<exc, ret>>
                 ELSE /\ Raise(res)
                      /\ UNCHANGED <<remote, result>>
    /\ UNCHANGED <<fn, file_list, collection, cred, idx, owncloud_name>>
    /\ UNCHANGED ljVars /\ UNCHANGED gsVars

\* variant: result bound to None before the loop
up_return_none ==
    /\ pc = "up_return"
    /\ IF result = <<>> THEN Return("None") ELSE Return(result[1])
    /\ UNCHANGED <<fn, log>> /\ UNCHANGED upVars /\ UNCHANGED ljVars /\ UNCHANGED gsVars

\* return result
up_return ==
    /\ pc = "up_return"
    /\ IF result = <<>> THEN Raise("UnboundLocalError") ELSE Return(result[1])
    /\ UNCHANGED <<fn, log>> /\ UNCHANGED upVars /\ UNCHANGED ljVars /\ UNCHANGED gsVars

Next ==
    \/ call_load_json \/ lj_open \/ lj_load
    \/ call_gsheet_to_df \/ gs_get \/ gs_print \/ gs_read_csv
    \/ call_upload_files_to_owncloud \/ up_login \/ up_mkdir \/ up_for \/ up_put \/ up_return

Spec == Init /\ [][Next]_vars


\* ================================================================== claims
Up == fn = "upload_files_to_owncloud"
Gs == fn = "gsheet_to_df"
Lj == fn = "load_json"

PutIdx == {k \in DOMAIN log : log[k].op = "put"}
\* the position among the puts of the put logged at k
PutRank(k) == Cardinality({j \in PutIdx : j <= k})
\* the last successful put to a remote name
LastPutTo(name) ==
    CHOOSE m \in PutIdx : /\ log[m].name = name /\ log[m].res \in PutOutcomes
                          /\ \A m2 \in PutIdx : (log[m2].name = name /\ log[m2].res \in PutOutcomes) => m2 <= m
\* t is the last path component of x: what follows the last "/"
IsBasename(t, x) ==
    \E j \in 0..Len(x) : /\ t = SubSeq(x, j + 1, Len(x))
                         /\ j = 0 \/ x[j] = "/"
                         /\ \A k \in DOMAIN t : t[k] # "/"

\* C1: when the put of file i fails, the call ends with that put's error and
\* no return value, the failed put is the last thing the call did (no put
\* for files i+1..n), and the puts of files 1..i-1 were performed, in order,
\* and what they wrote is still on the server.
C1_FailedPutAborts ==
    Up => \A k \in PutIdx : log[k].res \in PutErrors =>
            LET i == PutRank(k)
            IN  /\ pc = "done" /\ exc = log[k].res /\ ret = <<>>
                /\ k = Len(log)
                /\ log[k].src = file_list[i]
                /\ \A j \in 1..(i - 1) :
                      \E m \in PutIdx :
                         /\ m < k /\ PutRank(m) = j
                         /\ log[m].src = file_list[j] /\ log[m].res \in PutOutcomes
                         /\ [name |-> log[m].name, content |-> log[LastPutTo(log[m].name)].src] \in remote

C1_Witness ==
    /\ Up /\ pc = "done" /\ exc \in PutErrors
    /\ Len(file_list) = 3 /\ idx = 2 /\ Cardinality(PutIdx) = 2 /\ Cardinality(remote) = 1

\* C2: whatever error mkdir ends with, the call does not end with it: the
\* call goes on to the loop, and when it ends it has attempted the puts of the
\* list in order, all of them unless a put failed.
C2_MkdirFailureSuppressed ==
    (Up /\ \E k \in DOMAIN log : log[k].op = "mkdir" /\ log[k].res \in MkdirErrors) =>
        /\ pc \in {"up_for", "up_put", "up_return", "done"}
        /\ pc = "done" =>
              /\ exc \in PutErrors \cup {"none", "UnboundLocalError"}
              /\ exc \in PutErrors <=> (PutIdx # {} /\ log[Len(log)].res \in PutErrors)
              /\ exc \notin PutErrors => Cardinality(PutIdx) = Len(file_list)
              /\ \A k \in PutIdx : log[k].src = file_list[PutRank(k)]

C2_Witness ==
    /\ Up /\ pc = "done" /\ exc = "none" /\ ret # <<>>
    /\ \E k \in DOMAIN log : log[k].op = "mkdir" /\ log[k].res = "denied"
    /\ Cardinality(PutIdx) = 2

\* C3: a call logs in exactly once, as its first external call, before the
\* mkdir and every put; a failed login ends the call with the login's error,
\* and nothing else was done: no mkdir, no put, no object written.
C3_LoginOnceFirst ==
    Up => /\ pc = "up_login" => log = <<>>
          /\ pc # "up_login" =>
                /\ Cardinality({k \in DOMAIN log : log[k].op = "login"}) = 1
                /\ log[1].op = "login"
                /\ log[1].res # "ok" =>
                      /\ Len(log) = 1 /\ pc = "done" /\ exc = log[1].res
                      /\ ret = <<>> /\ remote = {}

C3_Witness ==
    /\ Up /\ pc = "done" /\ exc \in LoginErrors /\ Len(log) = 1 /\ Len(file_list) = 2

\* C4: when every put of a non-empty list succeeded, the call returns the
\* outcome of the put of the last list entry.
C4_ReturnsLastOutcome ==
    (Up /\ pc = "done" /\ exc = "none") =>
        /\ file_list # <<>>
        /\ Cardinality(PutIdx) = Len(file_list)
        /\ \E k \in PutIdx : /\ PutRank(k) = Len(file_list)
                             /\ log[k].src = file_list[Len(file_list)]
                             /\ ret = <<log[k].res>>

C4_Witness ==
    /\ Up /\ pc = "done" /\ exc = "none" /\ Len(file_list) = 2
    /\ ret = <<"r2">>
    /\ \E k \in PutIdx : PutRank(k) = 1 /\ log[k].res = "r1"

\* C5: the k-th put is the put of the k-th list entry, its remote name is
\* folder + "/" + basename of the entry, and the log entry right before it is
\* the diagnostic of that entry; a call that returns made one put per entry.
C5_PutsInOrderWithNames ==
    Up => /\ \A k \in PutIdx :
                LET x == file_list[PutRank(k)]
                IN  /\ PutRank(k) <= Len(file_list)
                    /\ log[k].src = x
                    /\ \E t \in {SubSeq(x, j + 1, Len(x)) : j \in 0..Len(x)} :
                          /\ IsBasename(t, x)
                          /\ log[k].name = collection \o <<"/">> \o t
                          /\ log[k - 1] = [op |-> "print", name |-> log[k].name, src |-> t, res |-> "ok"]
          /\ (pc = "done" /\ exc = "none") => Cardinality(PutIdx) = Len(file_list)

C5_Witness ==
    /\ Up /\ pc = "done" /\ exc = "none" /\ Len(file_list) = 3
    /\ file_list[1] = <<"d", "/", "e", "/", "b">> /\ file_list[2] = <<"a">>


\* the positions where a non-blank line of the body starts
LineStarts(body) ==
    {i \in DOMAIN body : body[i] # "\n" /\ (i = 1 \/ body[i - 1] = "\n")}
Commas(body) == Cardinality({i \in DOMAIN body : body[i] = ","})

RECURSIVE JsonValues(_), JsonItems(_)
JsonValues(n) ==
    IF n <= 0 THEN {}
    ELSE {[k \in 1..m |-> DIGIT1] : m \in 1..n}
         \cup (IF n < 2 THEN {}
               ELSE {<<QUOTE>> \o c \o <<QUOTE>> : c \in SeqsUpTo(Bytes \ {QUOTE}, n - 2)})
         \cup (IF n < 2 THEN {}
               ELSE {<<LBRACKET>> \o it \o <<RBRACKET>> : it \in {<<>>} \cup JsonItems(n - 2)})
JsonItems(n) ==
    IF n <= 0 THEN {}
    ELSE JsonValues(n)
         \cup {t \in {v \o <<COMMA>> \o it : v \in JsonValues(n - 2), it \in JsonItems(n - 2)} :
                 Len(t) <= n}

Ascii(b) == \A i \in DOMAIN b : b[i] < 128
Lead(c) == c >= 194 /\ c <= 223
Cont(c) == c >= 128 /\ c <= 191
\* some byte of b is neither ASCII nor part of a two-byte UTF-8 sequence
Stray(b) ==
    \E i \in DOMAIN b :
        /\ b[i] >= 128
        /\ ~(Lead(b[i]) /\ i < Len(b) /\ Cont(b[i + 1]))
        /\ ~(Cont(b[i]) /\ i > 1 /\ Lead(b[i - 1]))
\* the file's text is not a JSON document: its bytes do not decode, or they
\* decode to themselves (ASCII, latin-1) and are no JSON text
Undecodable == encoding = "utf-8" /\ Stray(file.bytes)
NotJson ==
    /\ encoding = "latin-1" \/ Ascii(file.bytes)
    /\ file.bytes \notin JsonValues(Len(file.bytes))

C8_StatusNotInspected ==
    Gs => /\ Cardinality({k \in DOMAIN log : log[k].op = "get"}) = (IF pc = "gs_get" THEN 0 ELSE 1)
          /\ (pc = "done" /\ r # <<>>) =>
                LET df == read_csv(r[1].content)
                IN  /\ log = <<Event("get", url, <<>>, "ok"),
                               Event("print", <<r[1].status_code>>, <<>>, "ok")>>
                    /\ IF df.err = "none"
                       THEN exc = "none" /\ ret = <<[columns |-> df.columns, rows |-> df.rows]>>
                       ELSE exc = df.err /\ ret = <<>>

C8_Witness ==
    /\ Gs /\ pc = "done" /\ r # <<>> /\ r[1].status_code = 404
    /\ ret # <<>> /\ Len(ret[1].rows) = 1

\* C9: with an empty file list and a successful login the call returns no
\* value: it logs in, calls mkdir, makes no put, and ends with the error of
\* reading the unbound result.
C9_EmptyListFails ==
    (Up /\ file_list = <<>> /\ pc # "up_login" /\ log[1].res = "ok") =>
        /\ ret = <<>> /\ PutIdx = {} /\ remote = {}
        /\ pc = "done" =>
              /\ exc = "UnboundLocalError"
              /\ Len(log) = 2 /\ log[1].op = "login" /\ log[2].op = "mkdir"

C9_Witness ==
    /\ Up /\ file_list = <<>> /\ pc = "done" /\ exc = "UnboundLocalError"
    /\ Len(log) = 2 /\ log[2].res = "ok"

Basename(x) == CHOOSE t \in {SubSeq(x, j + 1, Len(x)) : j \in 0..Len(x)} : IsBasename(t, x)

\* C10: two puts of entries with the same basename go to the same remote
\* name; after a batch whose puts all succeeded, each remote object holds the
\* content of the last list entry with its basename, and there are as many
\* remote objects as distinct basenames in the list.
C10_SameBasenameSameName ==
    Up => /\ \A j, k \in PutIdx :
                Basename(log[j].src) = Basename(log[k].src) => log[j].name = log[k].name
          /\ (pc = "done" /\ exc = "none") =>
                /\ Cardinality(remote) = Cardinality({Basename(file_list[k]) : k \in DOMAIN file_list})
                /\ \A o \in remote :
                      \E k \in DOMAIN file_list :
                         /\ o.content = file_list[k]
                         /\ o.name = collection \o <<"/">> \o Basename(file_list[k])
                         /\ \A k2 \in DOMAIN file_list :
                               k2 > k => Basename(file_list[k2]) # Basename(file_list[k])

C10_Witness ==
    /\ Up /\ pc = "done" /\ exc = "none"
    /\ file_list = <<<<"d", "/", "a">>, <<"d", "/", "e", "/", "b">>, <<"a">>>>
    /\ Cardinality(remote) = 2

====
